---- MODULE Spec2Model ----
(***************************************************************************)
(* Model of the banking assistant's turn pipeline (banking_agent/agent.py): *)
(* root_agent = SequentialAgent[intent_agent, avery_with_validation], where *)
(* avery_with_validation = LoopAgent[avery_agent, validator_agent] with     *)
(* max_iterations = 3 and handle_validation_failure as after-agent callback.*)
(*                                                                          *)
(* The session state is the string-keyed dictionary the agents share: the    *)
(* set of keys it holds and the value of each key (an absent key is mapped  *)
(* to a placeholder of the key's type, which no operation reads).           *)
(* Strings built by the program are modelled as sequences of tokens, so     *)
(* the empty string is the empty sequence.                                  *)
(*                                                                          *)
(* The language model behind each LlmAgent is an external generator: what   *)
(* it replies is a nondeterministic choice.  The responder's decisions      *)
(* (whether to call search_documents, which response to give) are free.     *)
(* The validator's reply follows the rules its instructions state for the   *)
(* inputs rendered into them (VALIDATOR_INSTRUCTIONS).                      *)
(***************************************************************************)
EXTENDS Integers, Sequences, FiniteSets, TLC

\* ---------------------------------------------------------------- bounds
MaxTurns == 2
MaxToolCalls == 2

\* ------------------------------------------------------------- constants
\* A loop configured with one iteration too many.
max_iterations_four == 3 + 1
max_iterations == 3

GenErrorFeedback == "generation error, retry"

\* ------------------------------------------------------ small input sets
Queries == {"q1", "q2"}
Feedbacks == {"f1", "f2"}
Limits == {1, 5}

\* A backend result item: a dict (with some of the keys text, content,
\* summary; "" stands for an absent or empty value) or a non-dict value.
DictItem(t, c) == [isDict |-> TRUE, text |-> t, content |-> c, summary |-> "", raw |-> "{..}"]
RawItem(s) == [isDict |-> FALSE, text |-> "", content |-> "", summary |-> "", raw |-> s]

\* What cognee.search can do: raise, or return a list.
BackendOutcomes ==
    { [kind |-> "raise", items |-> <<>>],
      [kind |-> "list", items |-> <<>>],
      [kind |-> "list", items |-> <<RawItem("s1"), DictItem("", "s2")>>] }

\* ------------------------------------------------------------ the schemas
IntentCategory == {"greet", "investment_related_question", "general_question", "out_of_scope"}

\* IntentGuardrailOutput: intent is an IntentCategory, allowed is a bool; the
\* model declares no cross-field validator.  query, reasoning and confidence
\* do not influence the pipeline and are left out.
IntentGuardrailOutput == [intent : IntentCategory, allowed : BOOLEAN]

\* AgentResponse values the responder's generator may produce.
GeneratedResponses ==
    { [voice_str |-> "v1", text |-> "t1", send_to_ui |-> TRUE, follow_up_questions |-> <<"u1">>],
      [voice_str |-> "v2", text |-> "t2", send_to_ui |-> FALSE, follow_up_questions |-> <<>>] }

\* The fixed escalation response built by handle_validation_failure.
fallback_response ==
    [voice_str |-> "I need to connect you with a specialist for this question.",
     text |-> "I apologize, but I need to escalate your question to ensure you receive accurate information. A specialist will assist you shortly.",
     send_to_ui |-> TRUE,
     follow_up_questions |-> <<>>]

\* A value is a well-formed AgentResponse when it has the four fields of the
\* schema with a boolean send_to_ui and a list of follow-up questions.
IsAgentResponse(x) ==
    /\ DOMAIN x = {"voice_str", "text", "send_to_ui", "follow_up_questions"}
    /\ x.send_to_ui \in BOOLEAN
    /\ x.follow_up_questions \in Seq({"u1", "u2"})

\* ------------------------------------------------------------ the state
VARIABLES
    pc,            \* where the turn is: idle, root, intent_agent, loop,
                   \* avery_agent, validator_agent, done, aborted
    rootIdx,       \* index of root_agent's sub-agent to run next
    loopIdx,       \* index of the LoopAgent's sub-agent to run next
    times_looped,  \* completed iterations of the LoopAgent
    state,         \* the session state dictionary
    active,        \* the agents that are running now
    turn,          \* number of the current turn
    toolCalls,     \* search_documents calls made in the current responder run
    invoked,       \* per responder run of the turn: was search_documents called
    nResp,         \* responder runs started in this turn
    nRespDone,     \* responder runs that produced a response in this turn
    intentDone,    \* intent classification completed in this turn
    verdict,       \* the validation result of the latest validator run
    verdicts,      \* is_valid and escalate of each validation of this turn
    instr,         \* values substituted into the responder's instructions
    vinstr,        \* values substituted into the validator's instructions
    fallback,      \* what handle_validation_failure returned
    output,        \* what the turn surfaces to the caller
    log,           \* logger.error records
    failure,       \* the step whose failure ended the turn, if any
    lastSearch,    \* query and backend outcome of the latest search_documents
                   \* call of the current responder run
    lastSave,      \* the response the latest responder run of the turn generated
    environ,       \* the process environment (os.environ)
    config,        \* the retriever's process-wide configuration (cognee.config)
    sess,          \* the turns of two sessions handled by the same process
    accessed,      \* which sessions' steps wrote the retriever configuration
    call,          \* a direct call of one function: its name and arguments
    returned       \* what that call gave

pipeline == <<pc, rootIdx, loopIdx, times_looped, state, active, turn, toolCalls,
              invoked, nResp, nRespDone, intentDone, verdict, verdicts, instr,
              vinstr, fallback, output, log, failure, lastSearch, lastSave,
              environ, config>>

others == <<sess, accessed, call, returned>>

vars == <<pipeline, others>>

TempKeys == {"temp:retry_count", "temp:validation_feedback", "temp:is_valid",
             "temp:last_rag_output", "temp:rag_query"}
StateKeys == TempKeys \cup {"user_intent", "avery_response"}

NoIntent == [intent |-> "none", allowed |-> FALSE]
NoResponse == [voice_str |-> "", text |-> "", send_to_ui |-> FALSE, follow_up_questions |-> <<>>]

Placeholder ==
    [k \in StateKeys |->
        CASE k = "temp:retry_count" -> 0
          [] k = "temp:validation_feedback" -> ""
          [] k = "temp:is_valid" -> FALSE
          [] k = "temp:last_rag_output" -> <<>>
          [] k = "temp:rag_query" -> ""
          [] k = "user_intent" -> NoIntent
          [] k = "avery_response" -> NoResponse]

EmptyState == [keys |-> {}, val |-> Placeholder]

\* Dictionary operations: key in state, state[key], state[key] = v,
\* state.get(key, default).
Has(s, k) == k \in s.keys
Get(s, k) == s.val[k]
Put(s, k, v) == [keys |-> s.keys \cup {k}, val |-> [s.val EXCEPT ![k] = v]]
GetOr(s, k, d) == IF Has(s, k) THEN s.val[k] ELSE d
PutIfAbsent(s, k, v) == IF Has(s, k) THEN s ELSE Put(s, k, v)

\* (temp: keys kept from one user message to the next)
ClearTemp_keep(s) == s

\* Keys with the temp: prefix are dropped when a user message has been
\* handled; the other keys stay in the session.
ClearTemp(s) ==
    [keys |-> s.keys \ TempKeys,
     val |-> [k \in StateKeys |-> IF k \in TempKeys THEN Placeholder[k] ELSE s.val[k]]]

NoOutput == [kind |-> "none", body |-> NoResponse, error |-> ""]
NoInstr == [rendered |-> FALSE, retry_count |-> 0, validation_feedback |-> "",
            retry_block |-> FALSE]
NoVInstr == [rendered |-> FALSE, retry_count |-> 0, intent |-> "none",
             response |-> NoResponse, last_rag_output |-> <<>>]
NoFallback == [kind |-> "unset", body |-> NoResponse]
NoVerdict == [is_valid |-> FALSE, traceability_check |-> FALSE,
              consistency_check |-> FALSE, tool_usage_check |-> FALSE,
              validation_mode |-> "none", feedback |-> "", escalate |-> FALSE]
NoFailure == [step |-> "none", error |-> "", attempt |-> 0]
NoRaw == [is_valid |-> "absent", traceability_check |-> "absent",
          consistency_check |-> "absent", tool_usage_check |-> "absent",
          feedback |-> "absent", escalate |-> "absent"]
NoParsed == [is_valid |-> FALSE, traceability_check |-> FALSE,
             consistency_check |-> FALSE, tool_usage_check |-> "None",
             feedback |-> "", escalate |-> FALSE]
NoBackend == [kind |-> "none", items |-> <<>>]
NoContext == [found |-> FALSE, text |-> "", parts |-> <<>>]
NoFilters == [isNone |-> TRUE, items |-> <<>>]

\* rag/ingest.py.  A path of the file system: a file, a directory with the
\* files below it, or nothing.  file_types is None or a list of extensions.
\* The knowledge base fails cognee.add for the files of add_fails with
\* message add_error, and cognee.cognify unless cognify is "ok".
NoPath == [kind |-> "missing", name |-> "", children |-> <<>>]
NoFileTypes == [isNone |-> TRUE, items |-> <<>>]
NoKb == [add_fails |-> {}, add_error |-> "", cognify |-> "ok"]
NoEntry == [status |-> "", file |-> "", filename |-> "", error |-> <<>>]
NoIngest == [raised |-> "", dict |-> NoEntry, entries |-> <<>>, files |-> <<>>,
             kb_calls |-> <<>>]
NoCall == [fn |-> "none", state |-> EmptyState, raw |-> NoRaw, query |-> "",
           limit |-> 0, max_tokens |-> 0, has_ctx |-> FALSE, backend |-> NoBackend,
           filters |-> NoFilters, path |-> NoPath, document_paths |-> <<>>,
           file_types |-> NoFileTypes, kb |-> NoKb]
NoResult == [kind |-> "none", body |-> NoResponse, logged |-> <<>>, value |-> NoParsed,
             results |-> <<>>, text |-> <<>>, state |-> EmptyState, context |-> NoContext,
             again |-> EmptyState, ingest |-> NoIngest]
NoSearch == [made |-> FALSE, query |-> "", kind |-> "none"]
NoSave == NoResponse

\* The process environment and the retriever's configuration before any
\* call: OPENAI_API_KEY is set or not, the rest has its defaults.
Environs == { [OPENAI_API_KEY |-> k, LLM_API_KEY |-> ""] : k \in {"", "sk-1"} }
DefaultConfig == [llm_api_key |-> "", llm_provider |-> "default", llm_model |-> "default"]

\* The order of the sub-agents of the two composite agents.
\* (the root's sub-agents listed in the opposite order)
RootSubAgents_swapped == <<"avery_with_validation", "intent_agent">>
RootSubAgents == <<"intent_agent", "avery_with_validation">>
LoopSubAgents == <<"avery_agent", "validator_agent">>

\* No turn is being handled.
PipelineIdle ==
    /\ pc = "idle"
    /\ rootIdx = 1
    /\ loopIdx = 1
    /\ times_looped = 0
    /\ active = {}
    /\ turn = 0
    /\ toolCalls = 0
    /\ invoked = <<>>
    /\ nResp = 0
    /\ nRespDone = 0
    /\ intentDone = FALSE
    /\ verdict = NoVerdict
    /\ verdicts = <<>>
    /\ instr = NoInstr
    /\ vinstr = NoVInstr
    /\ fallback = NoFallback
    /\ output = NoOutput
    /\ log = <<>>
    /\ failure = NoFailure
    /\ lastSearch = NoSearch
    /\ lastSave = NoSave
    /\ environ \in Environs
    /\ config = DefaultConfig

PipelineInit ==
    /\ PipelineIdle
    /\ state = EmptyState

\* No second session and no direct call.
NoSessions == <<>>

\* The assistant is deployed with OPENAI_API_KEY set (load_dotenv).
Init ==
    /\ PipelineInit
    /\ environ.OPENAI_API_KEY # ""
    /\ sess = NoSessions
    /\ accessed = {}
    /\ call = NoCall
    /\ returned = NoResult

\* An exception that nothing in the pipeline catches ends the turn: the
\* caller gets the raised error.
Raise(step, err) ==
    /\ pc' = "aborted"
    /\ active' = {}
    /\ failure' = [step |-> step, error |-> err, attempt |-> nResp]
    /\ output' = [kind |-> "error", body |-> NoResponse, error |-> err]

\* -------------------------------------------------------------- the turn
\* A user message arrives.  Keys with the temp: prefix do not survive from
\* one user message to the next; the other keys do.
NewTurn ==
    /\ pc \in {"idle", "done", "aborted"}
    /\ turn < MaxTurns
    /\ turn' = turn + 1
    /\ pc' = "root"
    /\ rootIdx' = 1
    /\ loopIdx' = 1
    /\ times_looped' = 0
    /\ state' = ClearTemp(state)
    /\ active' = {}
    /\ toolCalls' = 0
    /\ invoked' = <<>>
    /\ nResp' = 0
    /\ nRespDone' = 0
    /\ intentDone' = FALSE
    /\ verdict' = NoVerdict
    /\ verdicts' = <<>>
    /\ instr' = NoInstr
    /\ vinstr' = NoVInstr
    /\ fallback' = NoFallback
    /\ output' = NoOutput
    /\ failure' = NoFailure
    /\ lastSearch' = NoSearch
    /\ lastSave' = NoSave
    /\ UNCHANGED <<log, others, environ, config>>

\* root_agent finished its last sub-agent: the turn is over.
RootEnd ==
    /\ pc = "root"
    /\ rootIdx > Len(RootSubAgents)
    /\ pc' = "done"
    /\ UNCHANGED <<rootIdx, loopIdx, times_looped, state, active, turn, others, lastSave, environ, config, toolCalls, lastSearch,
                   invoked, nResp, nRespDone, intentDone, verdict, verdicts, instr, vinstr,
                   fallback, output, log, failure>>

\* ------------------------------------------------------------ intent_agent
IntentBegin ==
    /\ pc = "root"
    /\ rootIdx <= Len(RootSubAgents)
    /\ RootSubAgents[rootIdx] = "intent_agent"
    /\ pc' = "intent_agent"
    /\ active' = active \cup {"intent_agent"}
    /\ UNCHANGED <<rootIdx, loopIdx, times_looped, state, turn, others, lastSave, environ, config, toolCalls, lastSearch,
                   invoked, nResp, nRespDone, intentDone, verdict, verdicts, instr, vinstr,
                   fallback, output, log, failure>>

\* The generator replies with a value of the output schema, saved under
\* output_key "user_intent".
IntentClassify ==
    /\ pc = "intent_agent"
    /\ \E r \in IntentGuardrailOutput :
         state' = Put(state, "user_intent", r)
    /\ intentDone' = TRUE
    /\ active' = active \ {"intent_agent"}
    /\ pc' = "root"
    /\ rootIdx' = rootIdx + 1
    /\ UNCHANGED <<loopIdx, times_looped, turn, others, lastSave, environ, config, toolCalls, lastSearch, invoked, nResp,
                   nRespDone, verdict, verdicts, instr, vinstr, fallback, output, log, failure>>

\* The generator's reply does not parse into the output schema, or the
\* generator call itself fails: the error is raised.
IntentFail ==
    /\ pc = "intent_agent"
    /\ Raise("intent_agent", "GenerationError")
    /\ UNCHANGED <<rootIdx, loopIdx, times_looped, state, turn, others, lastSave, environ, config, toolCalls, lastSearch,
                   invoked, nResp, nRespDone, intentDone, verdict, verdicts, instr, vinstr,
                   fallback, log>>

\* ------------------------------------------------------- the retriever
Min(a, b) == IF a < b THEN a ELSE b

\* search_knowledge: the first `limit` items of the backend's list, each
\* non-dict item wrapped into a dict under the key content; a backend
\* error is caught and gives the empty list.
WrapItem(it) ==
    IF it.isDict THEN it
    ELSE [isDict |-> TRUE, text |-> "", content |-> it.raw, summary |-> "", raw |-> "{..}"]

\* A backend value that is not a list becomes one result holding its
\* string form, whatever the limit is.
search_knowledge(query, limit, backend) ==
    IF backend.kind = "raise" THEN <<>>
    ELSE IF backend.kind = "single"
    THEN <<[isDict |-> TRUE, text |-> "", content |-> backend.items[1].raw,
            summary |-> "", raw |-> "{..}"]>>
    ELSE [i \in 1..Min(limit, Len(backend.items)) |-> WrapItem(backend.items[i])]

\* search_documents configures the retriever before each search: with
\* OPENAI_API_KEY set it writes the key to the environment and the key,
\* provider and model to the process-wide configuration.
configure_retriever(env, cfg) ==
    IF env.OPENAI_API_KEY # ""
    THEN [environ |-> [env EXCEPT !.LLM_API_KEY = env.OPENAI_API_KEY],
          config |-> [llm_api_key |-> env.OPENAI_API_KEY,
                      llm_provider |-> "openai",
                      llm_model |-> "gpt-4o-mini"]]
    ELSE [environ |-> env, config |-> cfg]

\* The text search_documents takes from one result.
ResultText(result) ==
    IF result.isDict
    THEN IF result.text # "" THEN result.text
         ELSE IF result.content # "" THEN result.content
         ELSE IF result.summary # "" THEN result.summary
         ELSE result.raw
    ELSE result.raw

RECURSIVE FormatTexts(_)
FormatTexts(results) ==
    IF results = <<>> THEN <<>>
    ELSE LET text == ResultText(Head(results))
         IN (IF text # "" THEN <<text>> ELSE <<>>) \o FormatTexts(Tail(results))

\* The string search_documents returns.
formatted_output(query, results) ==
    IF results = <<>>
    THEN <<"No information found for query:", query>>
    ELSE <<"Information about", query>> \o FormatTexts(results)

\* The session state search_documents leaves behind.
\* (the new output added after the output of an earlier call)
search_documents_state_append(s, query, results, has_ctx) ==
    IF ~has_ctx THEN s
    ELSE LET s1 == Put(s, "temp:last_rag_output",
                       GetOr(s, "temp:last_rag_output", <<>>) \o formatted_output(query, results))
             s2 == Put(s1, "temp:rag_query", query)
             s3 == PutIfAbsent(s2, "temp:retry_count", 0)
         IN IF results = <<>> THEN s3
            ELSE PutIfAbsent(PutIfAbsent(s3, "temp:validation_feedback", ""),
                             "temp:is_valid", FALSE)

\* (the loop variables set anew by every call)
search_documents_state_reset(s, query, results, has_ctx) ==
    IF ~has_ctx THEN s
    ELSE LET s1 == Put(s, "temp:last_rag_output", formatted_output(query, results))
             s2 == Put(s1, "temp:rag_query", query)
             s3 == Put(s2, "temp:retry_count", 0)
         IN IF results = <<>> THEN s3
            ELSE Put(Put(s3, "temp:validation_feedback", ""), "temp:is_valid", FALSE)

search_documents_state(s, query, results, has_ctx) ==
    IF ~has_ctx THEN s
    ELSE LET s1 == Put(s, "temp:last_rag_output", formatted_output(query, results))
             s2 == Put(s1, "temp:rag_query", query)
             s3 == PutIfAbsent(s2, "temp:retry_count", 0)
         IN IF results = <<>> THEN s3
            ELSE PutIfAbsent(PutIfAbsent(s3, "temp:validation_feedback", ""),
                             "temp:is_valid", FALSE)

\* search_documents as a function: the string it returns and the session
\* state it leaves (tool_context is None when has_ctx is false).
search_documents(s, query, limit, backend, has_ctx) ==
    LET results == search_knowledge(query, limit, backend)
    IN [returns |-> formatted_output(query, results),
        state |-> search_documents_state(s, query, results, has_ctx)]

\* get_context_for_query.  The content of a result is its content value,
\* or the string form of the whole result when it has none.
Content(result) == IF result.content # "" THEN result.content ELSE result.raw

\* The loop over the results: a result is included unless adding it would
\* exceed max_chars, and the first result that would ends the loop.
RECURSIVE ContextParts_strict(_, _, _, _)
ContextParts_strict(results, idx, current_length, max_chars) ==
    IF idx > Len(results) THEN <<>>
    ELSE LET content == Content(results[idx])
         IN IF current_length + Len(content) >= max_chars THEN <<>>
            ELSE <<[source |-> idx, content |-> content]>>
                 \o ContextParts_strict(results, idx + 1, current_length + Len(content), max_chars)

RECURSIVE ContextParts(_, _, _, _)
ContextParts(results, idx, current_length, max_chars) ==
    IF idx > Len(results) THEN <<>>
    ELSE LET content == Content(results[idx])
         IN IF current_length + Len(content) > max_chars THEN <<>>
            ELSE <<[source |-> idx, content |-> content]>>
                 \o ContextParts(results, idx + 1, current_length + Len(content), max_chars)

get_context_for_query(query, max_tokens, backend) ==
    LET results == search_knowledge(query, 10, backend)
    IN IF results = <<>>
       THEN [found |-> FALSE,
             text |-> "No relevant information found in the knowledge base.",
             parts |-> <<>>]
       ELSE [found |-> TRUE,
             text |-> "Relevant information from knowledge base:",
             parts |-> ContextParts(results, 1, 0, max_tokens * 4)]

\* search_with_filters.  A result has a key when it holds a value for it.
HasKey(result, key) == result[key] # ""

\* The test of one filter against one result (line 150).
\* (a result without the filter key does not match)
Mismatch_strict(result, item) ==
    ~HasKey(result, item.key) \/ result[item.key] # item.value

Mismatch(result, item) ==
    HasKey(result, item.key) /\ result[item.key] # item.value

\* The loop over the filters of one result: the first mismatch ends it
\* with matches = False.
RECURSIVE Matches(_, _)
Matches(result, items) ==
    IF items = <<>> THEN TRUE
    ELSE IF Mismatch(result, Head(items)) THEN FALSE
    ELSE Matches(result, Tail(items))

RECURSIVE FilterResults(_, _)
FilterResults(results, items) ==
    IF results = <<>> THEN <<>>
    ELSE (IF Matches(Head(results), items) THEN <<Head(results)>> ELSE <<>>)
         \o FilterResults(Tail(results), items)

\* filters is None, or a dict given as the sequence of its items.
search_with_filters(query, filters, limit, backend) ==
    LET results == search_knowledge(query, limit, backend)
    IN IF ~filters.isNone /\ filters.items # <<>> /\ results # <<>>
       THEN FilterResults(results, filters.items)
       ELSE results

\* --------------------------------------------------------- rag/ingest.py
\* Path.suffix of the names used, and str.lower on the suffixes used.
Suffix(name) ==
    CASE name \in {"a.pdf", "scans.pdf"} -> ".pdf"
      [] name = "b.PDF" -> ".PDF"
      [] name = "c.txt" -> ".txt"
      [] OTHER -> ""

Lower(suffix) ==
    CASE suffix = ".PDF" -> ".pdf"
      [] suffix = ".TXT" -> ".txt"
      [] OTHER -> suffix

\* The two checks of ingest_pdf that come before the try block.
\* (the suffix compared as written, without lower())
is_pdf_exact(pdf_path) == Suffix(pdf_path.name) = ".pdf"

is_pdf(pdf_path) == Lower(Suffix(pdf_path.name)) = ".pdf"

\* ingest_pdf: what it raises or returns, and the calls made on the
\* knowledge base, in order.
ingest_pdf(pdf_path, kb) ==
    IF pdf_path.kind = "missing"
    THEN [NoIngest EXCEPT !.raised = "FileNotFoundError"]
    ELSE IF ~is_pdf(pdf_path)
    THEN [NoIngest EXCEPT !.raised = "ValueError"]
    ELSE IF pdf_path.name \in kb.add_fails
    THEN [NoIngest EXCEPT !.kb_calls = <<"add">>,
                          !.dict = [status |-> "error", file |-> pdf_path.name,
                                    filename |-> "", error |-> <<kb.add_error>>]]
    ELSE IF kb.cognify # "ok"
    THEN [NoIngest EXCEPT !.kb_calls = <<"add", "cognify">>,
                          !.dict = [status |-> "error", file |-> pdf_path.name,
                                    filename |-> "", error |-> <<kb.cognify>>]]
    ELSE [NoIngest EXCEPT !.kb_calls = <<"add", "cognify">>,
                          !.dict = [status |-> "success", file |-> pdf_path.name,
                                    filename |-> pdf_path.name, error |-> <<>>]]

DefaultFileTypes == <<".pdf", ".txt", ".md", ".docx">>

InTypes(suffix, file_types) == \E i \in DOMAIN file_types : file_types[i] = suffix

\* path.glob("**/*" + ext): the files below the directory whose name ends
\* with ext.
Glob(path, ext) ==
    LET Ends(name) == Suffix(name) = ext
    IN SelectSeq(path.children, Ends)

\* for ext in file_types: files_to_process.extend(path.glob(...))
RECURSIVE GlobAll(_, _)
GlobAll(path, file_types) ==
    IF file_types = <<>> THEN <<>>
    ELSE Glob(path, Head(file_types)) \o GlobAll(path, Tail(file_types))

\* The collection loop of ingest_documents.
RECURSIVE files_to_process(_, _)
files_to_process(document_paths, file_types) ==
    IF document_paths = <<>> THEN <<>>
    ELSE LET path == Head(document_paths)
             found == IF path.kind = "file"
                      THEN IF InTypes(Lower(Suffix(path.name)), file_types)
                           THEN <<path.name>> ELSE <<>>
                      ELSE IF path.kind = "dir"
                      THEN GlobAll(path, file_types)
                      ELSE <<>>
         IN found \o files_to_process(Tail(document_paths), file_types)

\* The entry appended for one file by the add loop.
add_entry(file_path, kb) ==
    IF file_path \in kb.add_fails
    THEN [status |-> "error", file |-> file_path, filename |-> "",
          error |-> <<kb.add_error>>]
    ELSE [status |-> "queued", file |-> file_path, filename |-> file_path,
          error |-> <<>>]

\* What the two loops after cognify make of one entry.
\* (a failed cognify rewrites the entries whose add failed as well)
after_cognify_overwrite(result, kb) ==
    IF kb.cognify = "ok"
    THEN IF result.status = "queued" THEN [result EXCEPT !.status = "success"] ELSE result
    ELSE [result EXCEPT !.status = "error",
                        !.error = <<"Cognify failed: ", kb.cognify>>]

after_cognify(result, kb) ==
    IF result.status # "queued" THEN result
    ELSE IF kb.cognify = "ok"
    THEN [result EXCEPT !.status = "success"]
    ELSE [result EXCEPT !.status = "error",
                        !.error = <<"Cognify failed: ", kb.cognify>>]

ingest_documents(document_paths, file_types_arg, kb) ==
    LET file_types == IF file_types_arg.isNone THEN DefaultFileTypes
                      ELSE file_types_arg.items
        files == files_to_process(document_paths, file_types)
        results == [i \in 1..Len(files) |-> add_entry(files[i], kb)]
        adds == [i \in 1..Len(files) |-> "add"]
    IN IF files # <<>>
       THEN [NoIngest EXCEPT !.files = files,
                             !.kb_calls = adds \o <<"cognify">>,
                             !.entries = [i \in 1..Len(files)
                                            |-> after_cognify(results[i], kb)]]
       ELSE [NoIngest EXCEPT !.files = files, !.kb_calls = adds, !.entries = results]

\* ------------------------------------------------------------ avery_agent
\* before_agent_callback of avery_agent.
\* (the callback without the two retrieval variables)
initialize_temp_state_loop_only(s) ==
    LET s1 == PutIfAbsent(s, "temp:retry_count", 0)
        s2 == PutIfAbsent(s1, "temp:validation_feedback", "")
    IN PutIfAbsent(s2, "temp:is_valid", FALSE)

\* (the callback assigning the defaults without looking for the keys)
initialize_temp_state_reset(s) ==
    LET s1 == Put(s, "temp:retry_count", 0)
        s2 == Put(s1, "temp:validation_feedback", "")
        s3 == Put(s2, "temp:is_valid", FALSE)
        s4 == Put(s3, "temp:last_rag_output", <<>>)
    IN Put(s4, "temp:rag_query", "")

initialize_temp_state(s) ==
    LET s1 == PutIfAbsent(s, "temp:retry_count", 0)
        s2 == PutIfAbsent(s1, "temp:validation_feedback", "")
        s3 == PutIfAbsent(s2, "temp:is_valid", FALSE)
        s4 == PutIfAbsent(s3, "temp:last_rag_output", <<>>)
    IN PutIfAbsent(s4, "temp:rag_query", "")

\* The state variables CONCIERGE_INSTRUCTIONS and VALIDATOR_INSTRUCTIONS
\* name; rendering fails with KeyError when one is absent.
ConciergeVars == {"temp:retry_count", "temp:validation_feedback"}
ValidatorVars == {"temp:retry_count", "user_intent", "avery_response", "temp:last_rag_output"}

\* What follows the end of the LoopAgent's sub-agent at loopIdx.  The loop
\* ends early only on an event that carries the escalate action; no tool or
\* callback of avery_agent or validator_agent sets it, and the escalate
\* field of ValidationResult is part of the reply's text.
EventEscalates(agent) == FALSE

\* (a loop that does not count its iterations)
LoopAdvance_no_count(agent) ==
    IF EventEscalates(agent)
    THEN /\ pc' = "after_loop"
         /\ UNCHANGED <<loopIdx, times_looped>>
    ELSE /\ pc' = "loop"
         /\ loopIdx' = IF loopIdx < Len(LoopSubAgents) THEN loopIdx + 1 ELSE 1
         /\ UNCHANGED times_looped

LoopAdvance(agent) ==
    IF EventEscalates(agent)
    THEN /\ pc' = "after_loop"
         /\ UNCHANGED <<loopIdx, times_looped>>
    ELSE /\ pc' = "loop"
         /\ IF loopIdx < Len(LoopSubAgents)
            THEN /\ loopIdx' = loopIdx + 1
                 /\ UNCHANGED times_looped
            ELSE /\ loopIdx' = 1
                 /\ times_looped' = times_looped + 1

\* root_agent starts the LoopAgent.
LoopBegin ==
    /\ pc = "root"
    /\ rootIdx <= Len(RootSubAgents)
    /\ RootSubAgents[rootIdx] = "avery_with_validation"
    /\ pc' = "loop"
    /\ loopIdx' = 1
    /\ times_looped' = 0
    /\ UNCHANGED <<rootIdx, state, active, turn, others, lastSave, environ, config, toolCalls, lastSearch, invoked, nResp,
                   nRespDone, intentDone, verdict, verdicts, instr, vinstr, fallback,
                   output, log, failure>>

\* avery_agent starts: the callback runs, then the instructions are rendered.
AveryBegin ==
    /\ pc = "loop"
    /\ times_looped < max_iterations
    /\ LoopSubAgents[loopIdx] = "avery_agent"
    /\ LET s == initialize_temp_state(state)
       IN /\ state' = s
          /\ nResp' = nResp + 1
          /\ invoked' = Append(invoked, FALSE)
          /\ toolCalls' = 0
          /\ lastSearch' = NoSearch
          /\ IF ConciergeVars \subseteq s.keys
             THEN /\ instr' = [rendered |-> TRUE,
                               retry_count |-> Get(s, "temp:retry_count"),
                               validation_feedback |-> Get(s, "temp:validation_feedback"),
                               retry_block |-> Get(s, "temp:retry_count") > 0]
                  /\ pc' = "avery_agent"
                  /\ active' = active \cup {"avery_agent"}
                  /\ UNCHANGED <<failure, output>>
             ELSE /\ Raise("avery_agent", "KeyError")
                  /\ UNCHANGED instr
    /\ UNCHANGED <<rootIdx, loopIdx, times_looped, turn, others, lastSave, environ, config, nRespDone, intentDone,
                   verdict, verdicts, vinstr, fallback, log>>

\* The responder calls its tool.
SearchDocuments ==
    /\ pc = "avery_agent"
    /\ toolCalls < MaxToolCalls
    /\ \E query \in Queries, limit \in Limits, backend \in BackendOutcomes :
         /\ state' = search_documents_state(state, query,
                                            search_knowledge(query, limit, backend), TRUE)
         /\ lastSearch' = [made |-> TRUE, query |-> query, kind |-> backend.kind]
    /\ environ' = configure_retriever(environ, config).environ
    /\ config' = configure_retriever(environ, config).config
    /\ toolCalls' = toolCalls + 1
    /\ invoked' = [invoked EXCEPT ![Len(invoked)] = TRUE]
    /\ UNCHANGED <<pc, rootIdx, loopIdx, times_looped, active, turn, others, lastSave, nResp,
                   nRespDone, intentDone, verdict, verdicts, instr, vinstr, fallback,
                   output, log, failure>>

\* An agent's parsed reply is saved under its output_key: the new value
\* takes the place of the one the key held.
\* (the first value saved under the key is kept)
save_output_keep_first(s, key, r) == PutIfAbsent(s, key, r)

save_output(s, key, r) == Put(s, key, r)

\* The responder's reply parses into AgentResponse and is saved under
\* output_key "avery_response".
AveryRespond ==
    /\ pc = "avery_agent"
    /\ \E r \in GeneratedResponses :
         /\ state' = save_output(state, "avery_response", r)
         /\ lastSave' = r
    /\ nRespDone' = nRespDone + 1
    /\ active' = active \ {"avery_agent"}
    /\ LoopAdvance("avery_agent")
    /\ UNCHANGED <<rootIdx, turn, others, environ, config, toolCalls, lastSearch, invoked, nResp, intentDone,
                   verdict, verdicts, instr, vinstr, fallback, output, log, failure>>

\* The responder's reply does not parse into AgentResponse, or the
\* generator call fails: the error is raised.
AveryFail ==
    /\ pc = "avery_agent"
    /\ Raise("avery_agent", "GenerationError")
    /\ UNCHANGED <<rootIdx, loopIdx, times_looped, state, turn, others, lastSave, environ, config, toolCalls, lastSearch,
                   invoked, nResp, nRespDone, intentDone, verdict, verdicts, instr, vinstr,
                   fallback, log>>

\* A call that does not come back.  The code sets no deadline on the
\* retriever call (await search_knowledge) or on the generator call, and
\* catches nothing around them: the turn waits for the call for ever, or,
\* when the generator's client gives up by itself, its error is raised.
\* The step that waits is the responder run, also when it waits in its tool.
Hang(step) ==
    /\ pc' = "hung"
    /\ failure' = [step |-> step, error |-> "TimeoutError", attempt |-> nResp]
    /\ UNCHANGED <<active, output>>

SearchTimeout ==
    /\ pc = "avery_agent"
    /\ toolCalls < MaxToolCalls
    /\ Hang("avery_agent")
    /\ environ' = configure_retriever(environ, config).environ
    /\ config' = configure_retriever(environ, config).config
    /\ UNCHANGED <<rootIdx, loopIdx, times_looped, state, turn, others, lastSave, toolCalls,
                   lastSearch, invoked, nResp, nRespDone, intentDone, verdict, verdicts,
                   instr, vinstr, fallback, log>>

AveryTimeout ==
    /\ pc = "avery_agent"
    /\ \/ Hang("avery_agent")
       \/ Raise("avery_agent", "TimeoutError")
    /\ UNCHANGED <<rootIdx, loopIdx, times_looped, state, turn, others, lastSave, environ,
                   config, toolCalls, lastSearch, invoked, nResp, nRespDone, intentDone,
                   verdict, verdicts, instr, vinstr, fallback, log>>

\* -------------------------------------------------------- validator_agent
\* validator_agent starts: its instructions are rendered from the state.
ValidatorBegin ==
    /\ pc = "loop"
    /\ times_looped < max_iterations
    /\ LoopSubAgents[loopIdx] = "validator_agent"
    /\ IF ValidatorVars \subseteq state.keys
       THEN /\ vinstr' = [rendered |-> TRUE,
                          retry_count |-> Get(state, "temp:retry_count"),
                          intent |-> Get(state, "user_intent").intent,
                          response |-> Get(state, "avery_response"),
                          last_rag_output |-> Get(state, "temp:last_rag_output")]
            /\ pc' = "validator_agent"
            /\ active' = active \cup {"validator_agent"}
            /\ UNCHANGED <<failure, output>>
       ELSE /\ Raise("validator_agent", "KeyError")
            /\ UNCHANGED vinstr
    /\ UNCHANGED <<rootIdx, loopIdx, times_looped, state, turn, others, lastSave, environ, config, toolCalls, lastSearch,
                   invoked, nResp, nRespDone, intentDone, verdict, verdicts, instr,
                   fallback, log>>

\* The ValidationResult values the validator's instructions allow for the
\* intent, response and RAG output rendered into them.  The RAG tool counts
\* as called when temp:last_rag_output is not empty.  In investment mode
\* traceability and tool usage both need the tool to have been called; a
\* greeting and an out-of-scope reply need it not to have been called.  The
\* verdict follows the decision logic: valid, with escalate and an empty
\* feedback, exactly when the three checks are true.
ValidatorReplies(vi) ==
    LET called == vi.last_rag_output # <<>>
        strict == vi.intent \notin {"greet", "general_question", "out_of_scope"}
        trace == IF strict /\ ~called THEN {FALSE} ELSE BOOLEAN
        tool == IF strict THEN {called}
                ELSE IF vi.intent = "general_question" THEN BOOLEAN
                ELSE {~called}
        mode == IF vi.intent \in IntentCategory THEN vi.intent ELSE "unknown"
    IN UNION { { [is_valid |-> t /\ c /\ u,
                  traceability_check |-> t,
                  consistency_check |-> c,
                  tool_usage_check |-> u,
                  validation_mode |-> mode,
                  feedback |-> f,
                  escalate |-> t /\ c /\ u]
                 : f \in IF t /\ c /\ u THEN {""} ELSE Feedbacks }
               : <<t, c, u>> \in trace \X BOOLEAN \X tool }

\* The validator replies.  validator_agent has no output_key, tool or
\* callback: the reply is an event of the turn and writes nothing to the
\* session state.
ValidatorReply ==
    /\ pc = "validator_agent"
    /\ \E v \in ValidatorReplies(vinstr) :
         /\ verdict' = v
         /\ verdicts' = Append(verdicts, [is_valid |-> v.is_valid, escalate |-> v.escalate])
    /\ active' = active \ {"validator_agent"}
    /\ LoopAdvance("validator_agent")
    /\ UNCHANGED <<rootIdx, state, turn, others, lastSave, environ, config, toolCalls, lastSearch, invoked, nResp, nRespDone,
                   intentDone, instr, vinstr, fallback, output, log, failure>>

\* The validator's generator call fails: the error is raised.
ValidatorFail ==
    /\ pc = "validator_agent"
    /\ Raise("validator_agent", "GenerationError")
    /\ UNCHANGED <<rootIdx, loopIdx, times_looped, state, turn, others, lastSave, environ, config, toolCalls, lastSearch,
                   invoked, nResp, nRespDone, intentDone, verdict, verdicts, instr, vinstr,
                   fallback, log>>

\* ------------------------------------------------ handle_validation_failure
\* (the state read with state[key], which raises KeyError on an absent key)
handle_validation_failure_subscript(s) ==
    IF ~({"temp:is_valid", "temp:retry_count"} \subseteq s.keys)
    THEN [returns |-> [kind |-> "raise", body |-> NoResponse], logged |-> <<>>]
    ELSE IF Get(s, "temp:is_valid") \/ Get(s, "temp:retry_count") = 0
    THEN [returns |-> [kind |-> "None", body |-> NoResponse], logged |-> <<>>]
    ELSE IF ~Has(s, "temp:validation_feedback")
    THEN [returns |-> [kind |-> "raise", body |-> NoResponse], logged |-> <<>>]
    ELSE [returns |-> [kind |-> "content", body |-> fallback_response],
          logged |-> <<[attempts |-> Get(s, "temp:retry_count"),
                        feedback |-> Get(s, "temp:validation_feedback")]>>]

handle_validation_failure(s) ==
    LET is_valid == GetOr(s, "temp:is_valid", FALSE)
        retry_count == GetOr(s, "temp:retry_count", 0)
        validation_feedback == GetOr(s, "temp:validation_feedback", "Unknown issue")
    IN IF is_valid \/ retry_count = 0
       THEN [returns |-> [kind |-> "None", body |-> NoResponse],
             logged |-> <<>>]
       ELSE [returns |-> [kind |-> "content", body |-> fallback_response],
             logged |-> <<[attempts |-> retry_count, feedback |-> validation_feedback]>>]

\* The LoopAgent is over (max_iterations reached, or an escalate event):
\* its after_agent_callback runs.  When the callback returns None the
\* responder's last response stays the turn's answer.
AfterLoop ==
    /\ \/ pc = "after_loop"
       \/ pc = "loop" /\ times_looped >= max_iterations
    /\ LET h == handle_validation_failure(state)
       IN /\ fallback' = h.returns
          /\ log' = log \o [i \in 1..Len(h.logged) |->
                              [turn |-> turn,
                               attempts |-> h.logged[i].attempts,
                               feedback |-> h.logged[i].feedback]]
          /\ output' = IF h.returns.kind = "content"
                       THEN [kind |-> "response", body |-> h.returns.body, error |-> ""]
                       ELSE IF Has(state, "avery_response")
                       THEN [kind |-> "response", body |-> Get(state, "avery_response"), error |-> ""]
                       ELSE NoOutput
    /\ pc' = "root"
    /\ rootIdx' = rootIdx + 1
    /\ UNCHANGED <<loopIdx, times_looped, state, active, turn, others, lastSave, environ, config, toolCalls, lastSearch, invoked,
                   nResp, nRespDone, intentDone, verdict, verdicts, instr, vinstr, failure>>

\* ------------------------------------------------ functions called directly
\* The second specification applies one function to an input drawn from a
\* bounded set: handle_validation_failure to a session state, or the
\* ValidationResult schema to a reply of the validator's generator.
MaxRetryCount == 3

\* Session states with any subset of the three loop variables present.
CallbackStates ==
    { [keys |-> ks,
       val |-> [k \in StateKeys |->
                  IF k \notin ks THEN Placeholder[k]
                  ELSE CASE k = "temp:retry_count" -> rc
                         [] k = "temp:is_valid" -> iv
                         [] k = "temp:validation_feedback" -> fb
                         [] OTHER -> Placeholder[k]]]
      : ks \in SUBSET {"temp:retry_count", "temp:is_valid", "temp:validation_feedback"},
        rc \in 0..MaxRetryCount, iv \in BOOLEAN, fb \in {""} \cup Feedbacks }

\* Replies of the validator's generator as JSON objects: each field holds
\* true, false, null or a string, or is absent.
RawValidationResults ==
    [is_valid : {"true", "false", "absent"},
     traceability_check : {"true", "false", "absent"},
     consistency_check : {"true", "false"},
     tool_usage_check : {"true", "false", "null", "absent"},
     feedback : {"", "f1", "absent"},
     escalate : {"true", "false", "absent"}]

\* The ValidationResult schema: is_valid, traceability_check,
\* consistency_check and escalate are required booleans; tool_usage_check
\* is optional (None by default) and feedback defaults to "".  The schema
\* has no validator relating one field to another.
ValidationResult(raw) ==
    IF \E f \in {"is_valid", "traceability_check", "consistency_check", "escalate"} :
         raw[f] = "absent"
    THEN [accepted |-> FALSE, value |-> NoParsed]
    ELSE [accepted |-> TRUE,
          value |-> [is_valid |-> raw.is_valid = "true",
                     traceability_check |-> raw.traceability_check = "true",
                     consistency_check |-> raw.consistency_check = "true",
                     tool_usage_check |-> IF raw.tool_usage_check \in {"absent", "null"}
                                          THEN "None"
                                          ELSE IF raw.tool_usage_check = "true" THEN "True"
                                          ELSE "False",
                     feedback |-> IF raw.feedback = "absent" THEN "" ELSE raw.feedback,
                     escalate |-> raw.escalate = "true"]]

\* Inputs of the retriever functions.
MaxLimit == 3
MaxItems == 3
MaxTokens == 3

UnitLimits == 0..MaxLimit

\* Result items: dicts with a content value of 4 or 2 characters, a dict
\* with a text and no content, and a non-dict value.
UnitItems == { DictItem("", "abcd"), DictItem("", "ab"), DictItem("t1", ""), RawItem("xyz") }

RECURSIVE Lists(_, _)
Lists(S, n) ==
    IF n = 0 THEN {<<>>}
    ELSE Lists(S, n - 1) \cup { Append(l, x) : l \in Lists(S, n - 1), x \in S }

\* What cognee.search can give: an error, a list (also one of more than
\* 10 items), or a value that is not a list.
UnitBackends ==
    { [kind |-> "raise", items |-> <<>>] }
    \cup { [kind |-> "list", items |-> l] : l \in Lists(UnitItems, MaxItems) }
    \cup { [kind |-> "list", items |-> [i \in 1..11 |-> RawItem("x")]] }
    \cup { [kind |-> "single", items |-> <<x>>] : x \in UnitItems }

\* Session states a search_documents call can find: each temp variable
\* absent or holding a value, the retrieval variables those of an earlier
\* call for "q2".
SearchStates ==
    { [keys |-> ks,
       val |-> [k \in StateKeys |->
                  IF k \notin ks THEN Placeholder[k]
                  ELSE CASE k = "temp:retry_count" -> rc
                         [] k = "temp:is_valid" -> iv
                         [] k = "temp:validation_feedback" -> fb
                         [] k = "temp:last_rag_output" -> lro
                         [] k = "temp:rag_query" -> rq
                         [] OTHER -> Placeholder[k]]]
      : ks \in SUBSET TempKeys,
        rc \in {0, MaxRetryCount - 1}, iv \in BOOLEAN, fb \in {"", "f1"},
        lro \in {<<>>, formatted_output("q2", <<>>), formatted_output("q2", <<RawItem("s1")>>)},
        rq \in {"", "q2"} }

\* Session states the responder's callback can find: the temp variables as
\* above, in a new session or after user_intent and avery_response were
\* saved.
BeforeAgentStates ==
    SearchStates
    \cup { Put(Put(s, "user_intent", [intent |-> "greet", allowed |-> TRUE]),
                "avery_response", r)
            : s \in SearchStates, r \in GeneratedResponses }

\* Filters: None, the empty dict, or a dict with one or two of the keys
\* text and content.
FilterKeys == {"text", "content"}
FilterValues == {"abcd", "t1", "zz"}
FilterItems == [key : FilterKeys, value : FilterValues]

UnitFilters ==
    { NoFilters, [isNone |-> FALSE, items |-> <<>>] }
    \cup { [isNone |-> FALSE, items |-> <<a>>] : a \in FilterItems }
    \cup { [isNone |-> FALSE, items |-> <<a, b>>]
            : <<a, b>> \in { p \in FilterItems \X FilterItems : p[1].key # p[2].key } }

\* Paths, extension lists and knowledge bases of the ingestion calls.
MaxPaths == 2

UnitPaths ==
    { [kind |-> "file", name |-> n, children |-> <<>>] : n \in {"a.pdf", "b.PDF", "c.txt", "notes"} }
    \cup { [kind |-> "missing", name |-> "a.pdf", children |-> <<>>] }
    \cup { [kind |-> "dir", name |-> "docs", children |-> c]
            : c \in { <<>>, <<"a.pdf", "c.txt">>, <<"b.PDF", "a.pdf", "notes">> } }
    \cup { [kind |-> "dir", name |-> "scans.pdf", children |-> <<"a.pdf">>] }

UnitFileTypes ==
    { NoFileTypes }
    \cup { [isNone |-> FALSE, items |-> t]
            : t \in { <<>>, <<".pdf">>, <<".PDF">>, <<".pdf", ".txt">>, <<".txt", ".pdf">> } }

UnitKbs ==
    [add_fails : SUBSET {"a.pdf", "c.txt"}, add_error : {"e1"}, cognify : {"ok", "e2"}]

\* The calls made directly on the functions, one per start state.
UnitCalls ==
    \/ \E s \in CallbackStates :
          call = [NoCall EXCEPT !.fn = "handle_validation_failure", !.state = s]
    \/ \E p \in UnitPaths, k \in UnitKbs :
          call = [NoCall EXCEPT !.fn = "ingest_pdf", !.path = p, !.kb = k]
    \/ \E n \in 0..MaxPaths :
          \E d \in [1..n -> UnitPaths], t \in UnitFileTypes, k \in UnitKbs :
             call = [NoCall EXCEPT !.fn = "ingest_documents", !.document_paths = d,
                                   !.file_types = t, !.kb = k]
    \/ \E q \in Queries, l \in UnitLimits, b \in UnitBackends, f \in UnitFilters :
          call = [NoCall EXCEPT !.fn = "search_with_filters", !.query = q, !.limit = l,
                                !.backend = b, !.filters = f]
    \/ \E s \in BeforeAgentStates :
          call = [NoCall EXCEPT !.fn = "initialize_temp_state", !.state = s]
    \/ \E r \in RawValidationResults :
          call = [NoCall EXCEPT !.fn = "ValidationResult", !.raw = r]
    \/ \E q \in Queries, l \in UnitLimits, b \in UnitBackends :
          call = [NoCall EXCEPT !.fn = "search_knowledge", !.query = q, !.limit = l,
                                !.backend = b]
    \/ \E s \in SearchStates, q \in Queries, l \in {0, 5}, c \in BOOLEAN,
           b \in BackendOutcomes \cup {[kind |-> "single", items |-> <<RawItem("s1")>>]} :
          call = [NoCall EXCEPT !.fn = "search_documents", !.state = s, !.query = q,
                                !.limit = l, !.backend = b, !.has_ctx = c]
    \/ \E q \in Queries, m \in 0..MaxTokens, b \in UnitBackends :
          call = [NoCall EXCEPT !.fn = "get_context_for_query", !.query = q,
                                !.max_tokens = m, !.backend = b]

UnitInit ==
    /\ PipelineInit
    /\ sess = NoSessions
    /\ accessed = {}
    /\ UnitCalls
    /\ returned = NoResult

CallHandleValidationFailure ==
    /\ call.fn = "handle_validation_failure"
    /\ returned.kind = "none"
    /\ LET h == handle_validation_failure(call.state)
       IN returned' = [NoResult EXCEPT !.kind = h.returns.kind, !.body = h.returns.body,
                                       !.logged = h.logged]
    /\ UNCHANGED <<pipeline, sess, accessed, call>>

ParseValidationResult ==
    /\ call.fn = "ValidationResult"
    /\ returned.kind = "none"
    /\ LET p == ValidationResult(call.raw)
       IN returned' = [NoResult EXCEPT !.kind = IF p.accepted THEN "accepted" ELSE "rejected",
                                       !.value = p.value]
    /\ UNCHANGED <<pipeline, sess, accessed, call>>

CallSearchKnowledge ==
    /\ call.fn = "search_knowledge"
    /\ returned.kind = "none"
    /\ returned' = [NoResult EXCEPT !.kind = "list",
                                    !.results = search_knowledge(call.query, call.limit, call.backend)]
    /\ UNCHANGED <<pipeline, sess, accessed, call>>

\* A direct call configures the retriever as every call does.
CallSearchDocuments ==
    /\ call.fn = "search_documents"
    /\ returned.kind = "none"
    /\ LET r == search_documents(call.state, call.query, call.limit, call.backend, call.has_ctx)
       IN returned' = [NoResult EXCEPT !.kind = "str", !.text = r.returns, !.state = r.state]
    /\ environ' = configure_retriever(environ, config).environ
    /\ config' = configure_retriever(environ, config).config
    /\ UNCHANGED <<pc, rootIdx, loopIdx, times_looped, state, active, turn, toolCalls,
                   invoked, nResp, nRespDone, intentDone, verdict, verdicts, instr,
                   vinstr, fallback, output, log, failure, lastSearch, lastSave,
                   sess, accessed, call>>

CallGetContextForQuery ==
    /\ call.fn = "get_context_for_query"
    /\ returned.kind = "none"
    /\ returned' = [NoResult EXCEPT !.kind = "context",
                                    !.context = get_context_for_query(call.query,
                                                                      call.max_tokens,
                                                                      call.backend)]
    /\ UNCHANGED <<pipeline, sess, accessed, call>>

\* The callback runs on the state, and may run again on what it left (it
\* runs before every responder run of the loop).
CallInitializeTempState ==
    /\ call.fn = "initialize_temp_state"
    /\ returned.kind = "none"
    /\ returned' = [NoResult EXCEPT !.kind = "state",
                                    !.state = initialize_temp_state(call.state)]
    /\ UNCHANGED <<pipeline, sess, accessed, call>>

CallInitializeTempStateAgain ==
    /\ call.fn = "initialize_temp_state"
    /\ returned.kind = "state"
    /\ returned' = [returned EXCEPT !.kind = "state_again",
                                    !.again = initialize_temp_state(returned.state)]
    /\ UNCHANGED <<pipeline, sess, accessed, call>>

CallSearchWithFilters ==
    /\ call.fn = "search_with_filters"
    /\ returned.kind = "none"
    /\ returned' = [NoResult EXCEPT !.kind = "list",
                                    !.results = search_with_filters(call.query, call.filters,
                                                                    call.limit, call.backend)]
    /\ UNCHANGED <<pipeline, sess, accessed, call>>

CallIngestPdf ==
    /\ call.fn = "ingest_pdf"
    /\ returned.kind = "none"
    /\ LET r == ingest_pdf(call.path, call.kb)
       IN returned' = [NoResult EXCEPT !.kind = IF r.raised # "" THEN "raise" ELSE "dict",
                                       !.ingest = r]
    /\ UNCHANGED <<pipeline, sess, accessed, call>>

CallIngestDocuments ==
    /\ call.fn = "ingest_documents"
    /\ returned.kind = "none"
    /\ returned' = [NoResult EXCEPT !.kind = "entries",
                                    !.ingest = ingest_documents(call.document_paths,
                                                                call.file_types, call.kb)]
    /\ UNCHANGED <<pipeline, sess, accessed, call>>

UnitNext ==
    \/ CallIngestPdf
    \/ CallIngestDocuments
    \/ CallSearchWithFilters
    \/ CallInitializeTempState
    \/ CallInitializeTempStateAgain
    \/ CallHandleValidationFailure
    \/ ParseValidationResult
    \/ CallSearchKnowledge
    \/ CallSearchDocuments
    \/ CallGetContextForQuery

UnitSpec == UnitInit /\ [][UnitNext]_vars

\* ------------------------------------------------ turns of two sessions
\* The third specification interleaves, step by step, one turn of each of
\* two sessions served by the same process.  Each session has its own
\* session state; os.environ and cognee.config belong to the process.
\* A session's record holds what the pipeline's variables hold for one
\* turn: its position, its loop counters, its state and its output.
MaxConcToolCalls == 1

Sessions == {1, 2}

\* The message of session i asks about query i.
SessionQuery(i) == IF i = 1 THEN "q1" ELSE "q2"

IdleSession == [pc |-> "idle", loopIdx |-> 1, times_looped |-> 0, toolCalls |-> 0,
                state |-> EmptyState, output |-> NoOutput]

ConcInit ==
    /\ PipelineInit
    /\ sess = [i \in Sessions |-> IdleSession]
    /\ accessed = {}
    /\ call = NoCall
    /\ returned = NoResult

Process == <<pc, rootIdx, loopIdx, times_looped, state, active, turn, toolCalls,
             invoked, nResp, nRespDone, intentDone, verdict, verdicts, instr,
             vinstr, fallback, output, log, failure, lastSearch, lastSave,
             call, returned>>

\* The intents of the two messages: a greeting or an investment question.
ConcIntents ==
    { r \in IntentGuardrailOutput :
        r.allowed /\ r.intent \in {"greet", "investment_related_question"} }

\* intent_agent of session i: its reply is saved under user_intent.
ConcIntent(i) ==
    /\ sess[i].pc = "idle"
    /\ \E r \in ConcIntents :
         sess' = [sess EXCEPT ![i].state = save_output(@, "user_intent", r),
                              ![i].pc = "loop"]
    /\ UNCHANGED <<Process, environ, config, accessed>>

\* avery_agent of session i starts: its before_agent_callback runs.
ConcAveryBegin(i) ==
    /\ sess[i].pc = "loop"
    /\ sess[i].times_looped < max_iterations
    /\ LoopSubAgents[sess[i].loopIdx] = "avery_agent"
    /\ sess' = [sess EXCEPT ![i].state = initialize_temp_state(@),
                            ![i].toolCalls = 0,
                            ![i].pc = "avery_agent"]
    /\ UNCHANGED <<Process, environ, config, accessed>>

\* search_documents called in session i: it writes the process-wide
\* retriever configuration, then the session's state.
ConcSearchDocuments(i) ==
    /\ sess[i].pc = "avery_agent"
    /\ sess[i].toolCalls < MaxConcToolCalls
    /\ \E limit \in Limits, backend \in BackendOutcomes :
         sess' = [sess EXCEPT ![i].state = search_documents(@, SessionQuery(i), limit,
                                                            backend, TRUE).state,
                              ![i].toolCalls = @ + 1]
    /\ environ' = configure_retriever(environ, config).environ
    /\ config' = configure_retriever(environ, config).config
    /\ accessed' = IF environ.OPENAI_API_KEY # "" THEN accessed \cup {i} ELSE accessed
    /\ UNCHANGED Process

\* The responder of session i replies.
ConcAveryRespond(i) ==
    /\ sess[i].pc = "avery_agent"
    /\ \E r \in GeneratedResponses :
         sess' = [sess EXCEPT ![i].state = save_output(@, "avery_response", r),
                              ![i].pc = "loop",
                              ![i].loopIdx = @ + 1]
    /\ UNCHANGED <<Process, environ, config, accessed>>

\* validator_agent of session i runs: its reply writes no state.
ConcValidator(i) ==
    /\ sess[i].pc = "loop"
    /\ sess[i].times_looped < max_iterations
    /\ LoopSubAgents[sess[i].loopIdx] = "validator_agent"
    /\ ValidatorVars \subseteq sess[i].state.keys
    /\ sess' = [sess EXCEPT ![i].loopIdx = 1, ![i].times_looped = @ + 1]
    /\ UNCHANGED <<Process, environ, config, accessed>>

\* The loop of session i is over: the callback decides the turn's output.
ConcAfterLoop(i) ==
    /\ sess[i].pc = "loop"
    /\ sess[i].times_looped >= max_iterations
    /\ LET h == handle_validation_failure(sess[i].state)
       IN sess' = [sess EXCEPT
                     ![i].pc = "done",
                     ![i].output = IF h.returns.kind = "content"
                                   THEN [kind |-> "response", body |-> h.returns.body, error |-> ""]
                                   ELSE [kind |-> "response",
                                         body |-> Get(sess[i].state, "avery_response"),
                                         error |-> ""]]
    /\ UNCHANGED <<Process, environ, config, accessed>>

ConcNext ==
    \E i \in Sessions :
        \/ ConcIntent(i)
        \/ ConcAveryBegin(i)
        \/ ConcSearchDocuments(i)
        \/ ConcAveryRespond(i)
        \/ ConcValidator(i)
        \/ ConcAfterLoop(i)

ConcSpec == ConcInit /\ [][ConcNext]_vars

\* ======================================================================
\* Properties
\* ======================================================================
InvestmentTurn ==
    /\ intentDone
    /\ Get(state, "user_intent").intent = "investment_related_question"

\* The validation of the latest responder run has been made.
AttemptValidated == Len(verdicts) >= 1 /\ Len(verdicts) = Len(invoked)

\* C1: in a turn the responder performs at most 3 generation attempts,
\* whatever the validator's verdicts are.
C1_AtMostThreeAttempts == nResp <= 3

C1_Witness ==
    /\ pc = "done"
    /\ nResp = 3
    /\ verdicts[1].is_valid

\* C2: when all 3 attempts of a turn end with an invalid verdict, the
\* turn's output is exactly the fixed escalation response.
C2_ExhaustionGivesFallback ==
    (/\ pc = "done"
     /\ Len(verdicts) = 3
     /\ \A i \in 1..3 : ~verdicts[i].is_valid)
    => output = [kind |-> "response", body |-> fallback_response, error |-> ""]

\* C3: when a turn ends without the escalation fallback (the callback
\* returned None and the generated response is surfaced), the last
\* verdict of the turn had is_valid = true and escalate = true.
C3_SurfacedResponseWasValidated ==
    (pc = "done" /\ fallback.kind = "None")
    => (verdict.is_valid /\ verdict.escalate)

\* C4: a verdict with escalate = true ends the loop (no responder or
\* validator run follows it in the turn), and a verdict with escalate =
\* false at an attempt before the third is followed by the next attempt.
C4_EscalateEndsLoop ==
    /\ \A i \in 1..Len(verdicts) :
         verdicts[i].escalate
         => /\ i = Len(verdicts)
            /\ nResp = i
            /\ pc \notin {"avery_agent", "validator_agent"}
    /\ (pc = "done" /\ Len(verdicts) >= 1 /\ ~verdicts[Len(verdicts)].escalate)
       => Len(verdicts) = 3

\* C5: after an invalid verdict with feedback f at attempt k (k = 1, 2),
\* the responder's instructions for attempt k+1 carry exactly f as
\* temp:validation_feedback and their retry-feedback block is active.
C5_FeedbackReachesNextAttempt ==
    (pc = "avery_agent" /\ nResp >= 2 /\ ~verdict.is_valid)
    => /\ instr.validation_feedback = verdict.feedback
       /\ instr.retry_block

\* C6: the steps of a turn are strictly ordered and never overlap: the
\* intent classification runs before any responder attempt, the responder
\* of attempt k runs after intent classification and after k-1 completed
\* validations, and the validator of attempt k runs after the responder of
\* attempt k has produced its response.
C6_StrictlySequential ==
    /\ Cardinality(active) <= 1
    /\ "intent_agent" \in active => (nResp = 0 /\ ~intentDone)
    /\ "avery_agent" \in active
       => (intentDone /\ nRespDone = nResp - 1 /\ Len(verdicts) = nResp - 1)
    /\ "validator_agent" \in active
       => (intentDone /\ nRespDone = nResp /\ Len(verdicts) = nResp - 1)

C6_Witness ==
    /\ active = {"validator_agent"}
    /\ nResp = 2
    /\ Len(verdicts) = 1

\* C7: a failed generation of the responder does not abort the turn: it
\* counts as one attempt whose feedback is "generation error, retry".
C7_GenerationFailureIsAnAttempt ==
    (failure.step = "avery_agent" /\ failure.error = "GenerationError")
    => /\ pc # "aborted"
       /\ GetOr(state, "temp:validation_feedback", "") = GenErrorFeedback

\* C8: every turn ends with a well-formed AgentResponse as its output;
\* no dependency error is surfaced to the caller.
C8_TurnEndsWithAgentResponse ==
    pc \in {"done", "aborted"}
    => (output.kind = "response" /\ IsAgentResponse(output.body))

\* C9: in an investment turn, the validation of an attempt in which the
\* retriever was not invoked gives traceability_check = false and an
\* invalid verdict.
C9_NoRetrievalFailsTraceability ==
    (InvestmentTurn /\ AttemptValidated /\ ~invoked[Len(invoked)])
    => (~verdict.traceability_check /\ ~verdict.is_valid)

\* C10: when the retriever was not invoked in the current attempt, the
\* retrieval output the validator sees is empty.
C10_RetrievalRecordIsPerAttempt ==
    (pc = "validator_agent" /\ ~invoked[Len(invoked)])
    => vinstr.last_rag_output = <<>>

\* C11: when the backend raises during a search, the attempt's retrieval
\* record is the not-invoked record (empty retrieval output), so it differs
\* from the record of a search that succeeded and found nothing.
C11_BackendFailureLeavesNoRecord ==
    (pc = "avery_agent" /\ lastSearch.made /\ lastSearch.kind = "raise")
    => /\ Get(state, "temp:last_rag_output") = <<>>
       /\ Get(state, "temp:last_rag_output") # formatted_output(lastSearch.query, <<>>)

\* C12: in every attempt of an investment turn the retriever is invoked
\* before the attempt's response is produced.
C12_InvestmentAttemptsRetrieve ==
    InvestmentTurn => \A i \in 1..nRespDone : invoked[i]

\* C13: in a greet or out_of_scope turn the retriever is never invoked, so
\* temp:last_rag_output stays empty for the whole turn.
C13_NoRetrievalForGreetOrOutOfScope ==
    (intentDone /\ Get(state, "user_intent").intent \in {"greet", "out_of_scope"})
    => /\ \A i \in 1..Len(invoked) : ~invoked[i]
       /\ GetOr(state, "temp:last_rag_output", <<>>) = <<>>

\* C14: when intent classification fails the turn fails closed: no
\* responder attempt, retriever call or validator run happens, and the
\* turn is handled as out_of_scope (not ended by the error).
C14_IntentFailureFailsClosed ==
    failure.step = "intent_agent"
    => /\ nResp = 0
       /\ Len(invoked) = 0
       /\ Len(verdicts) = 0
       /\ GetOr(state, "user_intent", NoIntent).intent = "out_of_scope"
       /\ output.kind # "error"

\* C15: every intent result stored as user_intent has allowed = false
\* exactly when its intent is out_of_scope.
C15_AllowedIffInScope ==
    intentDone
    => (~Get(state, "user_intent").allowed
        <=> Get(state, "user_intent").intent = "out_of_scope")

\* C16: every validation result accepted by the ValidationResult schema
\* has escalate = is_valid.
C16_EscalateEqualsIsValid ==
    returned.kind = "accepted"
    => returned.value.escalate = returned.value.is_valid

\* C17: for every validation result, is_valid is true exactly when
\* traceability_check and consistency_check are true and tool_usage_check
\* is not false (None does not make the verdict invalid).
C17_IsValidIsConjunctionOfChecks ==
    returned.kind = "accepted"
    => (returned.value.is_valid
        <=> /\ returned.value.traceability_check
            /\ returned.value.consistency_check
            /\ returned.value.tool_usage_check # "False")

\* C18: after 3 invalid verdicts in a turn exactly one error log record is
\* emitted for the turn; it reports 3 attempts and the feedback of the
\* last failed validation.
C18_OneAuditRecordOnExhaustion ==
    (/\ pc = "done"
     /\ Len(verdicts) = 3
     /\ \A i \in 1..3 : ~verdicts[i].is_valid)
    => LET recs == {i \in DOMAIN log : log[i].turn = turn}
       IN /\ Cardinality(recs) = 1
          /\ \A i \in recs : log[i].attempts = 3 /\ log[i].feedback = verdict.feedback

\* C19: handle_validation_failure never raises: for every session state,
\* also with temp:is_valid, temp:retry_count or temp:validation_feedback
\* missing, it returns None or a content holding a well-formed
\* AgentResponse, and that content is the same for every state.
C19_FallbackHandlerNeverRaises ==
    (call.fn = "handle_validation_failure" /\ returned.kind # "none")
    => /\ returned.kind \in {"None", "content"}
       /\ returned.kind = "content"
          => (returned.body = fallback_response /\ IsAgentResponse(returned.body))

C19_Witness ==
    /\ call.fn = "handle_validation_failure"
    /\ call.state.keys = {"temp:retry_count"}
    /\ returned.kind = "content"

\* C20: when the first responder attempt of a turn starts, the retry count
\* is 0, the feedback is empty, the validity flag is false and the
\* retrieval output and query are empty, whatever earlier turns did.
C20_LoopStateIsTurnScoped ==
    (pc = "avery_agent" /\ nResp = 1 /\ toolCalls = 0)
    => /\ TempKeys \subseteq state.keys
       /\ Get(state, "temp:retry_count") = 0
       /\ Get(state, "temp:validation_feedback") = ""
       /\ Get(state, "temp:is_valid") = FALSE
       /\ Get(state, "temp:last_rag_output") = <<>>
       /\ Get(state, "temp:rag_query") = ""

C20_Witness ==
    /\ turn = 2
    /\ pc = "avery_agent"
    /\ nResp = 1
    /\ toolCalls = 0
    /\ Has(state, "avery_response")

\* C25: the retry counter counts attempts: while attempt k runs,
\* temp:retry_count is k-1, and the instructions rendered for the responder
\* and for the validator of attempt k show the count k-1.
C25_RetryCountCountsAttempts ==
    /\ pc = "avery_agent"
       => (Get(state, "temp:retry_count") = nResp - 1 /\ instr.retry_count = nResp - 1)
    /\ pc = "validator_agent"
       => (Get(state, "temp:retry_count") = nResp - 1 /\ vinstr.retry_count = nResp - 1)

\* C26: after each validator run temp:is_valid equals the is_valid field of
\* the validation result just produced, also when the loop has exited.
C26_IsValidFollowsVerdict ==
    AttemptValidated => Get(state, "temp:is_valid") = verdict.is_valid

\* C27: whenever the instructions of the responder or of the validator are
\* rendered, the five temp variables exist in the session state, in every
\* attempt of every turn and whether or not the retriever was invoked.
C27_TempVariablesExistAtRendering ==
    /\ pc \in {"avery_agent", "validator_agent"} => TempKeys \subseteq state.keys
    /\ failure.error # "KeyError"

C27_Witness ==
    /\ turn = 2
    /\ pc = "validator_agent"
    /\ vinstr.rendered
    /\ nResp = 2
    /\ \A i \in 1..Len(invoked) : ~invoked[i]

\* C22: a retriever or generator call that exceeds its deadline counts as
\* one failed attempt: the turn goes on (it neither hangs nor ends with
\* the error raised to the caller).
C22_TimeoutIsAFailedAttempt ==
    failure.error = "TimeoutError"
    => /\ pc \notin {"hung", "aborted"}
       /\ output.kind # "error"

\* C23: the response is replaced on each attempt: the response rendered
\* into the validator's instructions is the one generated in the same
\* attempt, and when the turn ends without the fallback the surfaced
\* response is the one of the last attempt run.
C23_ResponseReplacedEachAttempt ==
    /\ pc = "validator_agent" => vinstr.response = lastSave
    /\ (pc = "done" /\ fallback.kind = "None")
       => output = [kind |-> "response", body |-> lastSave, error |-> ""]

C23_Witness ==
    /\ turn = 2
    /\ pc = "validator_agent"
    /\ nResp = 2
    /\ ~verdicts[1].is_valid
    /\ lastSave \in GeneratedResponses

\* The number of results search_knowledge takes from the backend's value.
Taken(limit, backend) ==
    IF backend.kind = "raise" THEN 0
    ELSE IF backend.kind = "single" THEN 1
    ELSE Min(limit, Len(backend.items))

\* C24: whatever the backend returns (a list, a value that is not a list,
\* or an error), search_knowledge returns at most `limit` results, and they
\* are the backend's first results in the backend's order.
C24_AtMostLimitResultsInOrder ==
    (call.fn = "search_knowledge" /\ returned.kind = "list")
    => /\ Len(returned.results) <= call.limit
       /\ Len(returned.results) <= Len(call.backend.items)
       /\ \A i \in 1..Len(returned.results) :
             LET b == call.backend.items[i]
             IN IF b.isDict /\ call.backend.kind = "list"
                THEN returned.results[i] = b
                ELSE returned.results[i].content = b.raw

\* C28: after a search_documents call made with a tool context, in the
\* no-results branch and in the results branch, temp:last_rag_output is
\* the string the call returned and temp:rag_query is the query of the
\* call, whatever an earlier call left there; a call made without a tool
\* context leaves the state as it was.
C28_RetrievalRecordIsTheLastCall ==
    (call.fn = "search_documents" /\ returned.kind = "str")
    => IF call.has_ctx
       THEN /\ {"temp:last_rag_output", "temp:rag_query"} \subseteq returned.state.keys
            /\ Get(returned.state, "temp:last_rag_output") = returned.text
            /\ Get(returned.state, "temp:rag_query") = call.query
            /\ returned.text[2] = call.query
       ELSE returned.state = call.state

C28_Witness ==
    /\ call.fn = "search_documents"
    /\ call.has_ctx
    /\ Has(call.state, "temp:last_rag_output")
    /\ Get(call.state, "temp:last_rag_output") # <<>>
    /\ Get(call.state, "temp:rag_query") = "q2"
    /\ call.query = "q1"
    /\ returned.kind = "str"
    /\ Len(returned.text) > 2

\* The total length of the contents of the first n results.
RECURSIVE SumLen(_, _)
SumLen(results, n) ==
    IF n = 0 THEN 0 ELSE SumLen(results, n - 1) + Len(Content(results[n]))

\* C30: get_context_for_query includes exactly the longest prefix, in rank
\* order, of the (at most 10) search results whose total content length
\* is at most 4 * max_tokens characters; when the search returns nothing
\* it returns the fixed no-information string.
C30_ContextIsLongestPrefixInBudget ==
    (call.fn = "get_context_for_query" /\ returned.kind = "context")
    => LET results == search_knowledge(call.query, 10, call.backend)
           parts == returned.context.parts
           n == Len(parts)
       IN IF results = <<>>
          THEN /\ returned.context.text = "No relevant information found in the knowledge base."
               /\ parts = <<>>
          ELSE /\ Len(results) <= 10
               /\ n <= Len(results)
               /\ \A i \in 1..n : parts[i] = [source |-> i, content |-> Content(results[i])]
               /\ SumLen(results, n) <= 4 * call.max_tokens
               /\ n < Len(results) => SumLen(results, n + 1) > 4 * call.max_tokens

C30_Witness ==
    /\ call.fn = "get_context_for_query"
    /\ returned.kind = "context"
    /\ Len(returned.context.parts) >= 1
    /\ Len(returned.context.parts) < Min(10, Len(call.backend.items))
    /\ SumLen(search_knowledge(call.query, 10, call.backend), Len(returned.context.parts))
         = 4 * call.max_tokens

\* C29: when every retriever and generator call returns, every turn
\* terminates: the loop ends after at most 3 responder runs and 3
\* validator runs, and handle_validation_failure runs exactly once.
C29_TurnTerminates ==
    /\ [](nResp <= 3 /\ Len(verdicts) <= 3)
    /\ [][fallback.kind # "unset" => (fallback' = fallback \/ fallback' = NoFallback)]_vars
    /\ (pc = "root" /\ rootIdx = 1) ~> (pc = "done" /\ fallback.kind # "unset")

C29_Witness ==
    /\ pc = "done"
    /\ nResp = 3
    /\ Len(verdicts) = 3
    /\ ~verdicts[1].is_valid
    /\ verdicts[3].is_valid
    /\ fallback.kind # "unset"

\* C21: when the turns of two sessions are interleaved, no step of one
\* turn writes mutable state that a step of the other turn reads or
\* writes: the sessions' states are apart, and the retriever configuration
\* is not written by the steps of both turns.
C21_NoSharedMutableState ==
    /\ Cardinality(accessed) <= 1
    /\ \A i \in DOMAIN sess :
         Has(sess[i].state, "temp:rag_query")
         => Get(sess[i].state, "temp:rag_query") \in {"", SessionQuery(i)}

\* The default value initialize_temp_state gives each temp variable.
TempDefault(k) ==
    CASE k = "temp:retry_count" -> 0
      [] k = "temp:validation_feedback" -> ""
      [] k = "temp:is_valid" -> FALSE
      [] k = "temp:last_rag_output" -> <<>>
      [] k = "temp:rag_query" -> ""

\* C34: initialize_temp_state only adds missing keys: a key that exists
\* keeps its value, a missing temp variable gets its default, no other key
\* is touched, and running it twice leaves the state of running it once.
C34_InitializeOnlyAddsMissingKeys ==
    (call.fn = "initialize_temp_state" /\ returned.kind \in {"state", "state_again"})
    => /\ returned.state.keys = call.state.keys \cup TempKeys
       /\ \A k \in call.state.keys : Get(returned.state, k) = Get(call.state, k)
       /\ \A k \in TempKeys \ call.state.keys : Get(returned.state, k) = TempDefault(k)
       /\ returned.kind = "state_again" => returned.again = returned.state

C34_Witness ==
    /\ call.fn = "initialize_temp_state"
    /\ returned.kind = "state_again"
    /\ Has(call.state, "temp:retry_count")
    /\ Get(call.state, "temp:retry_count") = MaxRetryCount - 1
    /\ Has(call.state, "temp:is_valid")
    /\ Get(call.state, "temp:is_valid")
    /\ ~Has(call.state, "temp:rag_query")
    /\ Has(call.state, "avery_response")

\* C35: a search_documents call never changes the loop variables once they
\* exist: temp:retry_count, temp:validation_feedback and temp:is_valid
\* keep the values they had before the call, in both branches.
C35_SearchKeepsLoopVariables ==
    (call.fn = "search_documents" /\ returned.kind = "str")
    => \A k \in {"temp:retry_count", "temp:validation_feedback", "temp:is_valid"} :
         Has(call.state, k)
         => (Has(returned.state, k) /\ Get(returned.state, k) = Get(call.state, k))

C35_Witness ==
    /\ call.fn = "search_documents"
    /\ call.has_ctx
    /\ {"temp:retry_count", "temp:validation_feedback", "temp:is_valid"} \subseteq call.state.keys
    /\ Get(call.state, "temp:retry_count") = MaxRetryCount - 1
    /\ Get(call.state, "temp:validation_feedback") = "f1"
    /\ Get(call.state, "temp:is_valid")
    /\ returned.kind = "str"
    /\ Len(returned.text) > 2

\* C31: search_with_filters returns, in the original order, exactly the
\* search results r with r[k] = filters[k] for every filter key k that r
\* has; a result without a filter key is kept, and with no filters (None
\* or the empty dict) the results are returned as they are.
C31_FilterKeepsMatchingResults ==
    (call.fn = "search_with_filters" /\ returned.kind = "list")
    => LET results == search_knowledge(call.query, call.limit, call.backend)
           items == call.filters.items
           Keep(r) == \A i \in DOMAIN items :
                         HasKey(r, items[i].key) => r[items[i].key] = items[i].value
       IN returned.results = SelectSeq(results, Keep)

C31_Witness ==
    /\ call.fn = "search_with_filters"
    /\ returned.kind = "list"
    /\ Len(call.filters.items) = 2
    /\ Len(returned.results) = 2
    /\ Len(call.backend.items) = 3
    /\ call.limit >= 3
    /\ \E i \in 1..2 : ~HasKey(returned.results[i], "text")

\* C32: when ingest_documents returns there is one entry per collected
\* file, in order, and none has status "queued": an entry whose add
\* succeeded has status "success" if cognify succeeded and "error"
\* otherwise, an entry whose add failed has status "error" with the message
\* of the add failure, and no failure of add or cognify is raised.
C32_IngestDocumentsSettlesEveryEntry ==
    (call.fn = "ingest_documents" /\ returned.kind # "none")
    => LET entries == returned.ingest.entries
           files == returned.ingest.files
       IN /\ returned.kind = "entries"
          /\ returned.ingest.raised = ""
          /\ Len(entries) = Len(files)
          /\ \A i \in DOMAIN entries :
                /\ entries[i].file = files[i]
                /\ entries[i].status \in {"success", "error"}
                /\ files[i] \notin call.kb.add_fails
                   => (entries[i].status = "success" <=> call.kb.cognify = "ok")
                /\ files[i] \in call.kb.add_fails
                   => /\ entries[i].status = "error"
                      /\ entries[i].error = <<call.kb.add_error>>

C32_Witness ==
    /\ call.fn = "ingest_documents"
    /\ returned.kind = "entries"
    /\ call.kb.cognify # "ok"
    /\ Len(returned.ingest.entries) >= 3
    /\ \E i, j \in DOMAIN returned.ingest.entries :
          /\ returned.ingest.entries[i].error = <<call.kb.add_error>>
          /\ returned.ingest.entries[j].error = <<"Cognify failed: ", call.kb.cognify>>

\* C33: ingest_pdf raises FileNotFoundError for a missing path and
\* ValueError for a path whose suffix is not .pdf (in any case of the
\* letters), both before any call on the knowledge base; past the two
\* checks it never raises: a failure of add or cognify gives a result with
\* status "error", and status "success" comes only when both succeeded.
C33_IngestPdfChecksThenNeverRaises ==
    (call.fn = "ingest_pdf" /\ returned.kind # "none")
    => LET r == returned.ingest
           fails == call.path.name \in call.kb.add_fails \/ call.kb.cognify # "ok"
       IN IF call.path.kind = "missing"
          THEN returned.kind = "raise" /\ r.raised = "FileNotFoundError" /\ r.kb_calls = <<>>
          ELSE IF Lower(Suffix(call.path.name)) # ".pdf"
          THEN returned.kind = "raise" /\ r.raised = "ValueError" /\ r.kb_calls = <<>>
          ELSE /\ returned.kind = "dict"
               /\ r.raised = ""
               /\ r.dict.status = IF fails THEN "error" ELSE "success"

C33_Witness ==
    /\ call.fn = "ingest_pdf"
    /\ returned.kind = "dict"
    /\ call.path.name = "b.PDF"
    /\ call.kb.cognify # "ok"
    /\ returned.ingest.dict.status = "error"
    /\ returned.ingest.kb_calls = <<"add", "cognify">>

Next ==
    \/ NewTurn
    \/ RootEnd
    \/ IntentBegin
    \/ IntentClassify
    \/ IntentFail
    \/ LoopBegin
    \/ AveryBegin
    \/ SearchDocuments
    \/ AveryRespond
    \/ AveryFail
    \/ SearchTimeout
    \/ AveryTimeout
    \/ ValidatorBegin
    \/ ValidatorReply
    \/ ValidatorFail
    \/ AfterLoop

Spec == Init /\ [][Next]_vars

\* The steps of a turn in which every retriever and generator call returns
\* a value of its schema.  The runner executes the pipeline's next step
\* whenever there is one, so the steps of a turn are weakly fair; the
\* arrival of a user message is not.
TurnStep ==
    \/ RootEnd
    \/ IntentBegin
    \/ IntentClassify
    \/ LoopBegin
    \/ AveryBegin
    \/ SearchDocuments
    \/ AveryRespond
    \/ ValidatorBegin
    \/ ValidatorReply
    \/ AfterLoop

\* The session states a turn can start from: a new session, or a session
\* whose earlier turn left user_intent and avery_response (temp: keys do
\* not survive a turn).
TurnStartStates ==
    {EmptyState}
    \cup { Put(Put(EmptyState, "user_intent", i), "avery_response", r)
            : i \in IntentGuardrailOutput, r \in GeneratedResponses }

LiveInit ==
    /\ PipelineIdle
    /\ state \in TurnStartStates
    /\ environ.OPENAI_API_KEY # ""
    /\ sess = NoSessions
    /\ accessed = {}
    /\ call = NoCall
    /\ returned = NoResult

\* The user message of the turn arrives.
UserMessage ==
    /\ turn = 0
    /\ NewTurn

LiveNext ==
    \/ UserMessage
    \/ TurnStep

LiveSpec == LiveInit /\ [][LiveNext]_vars /\ WF_vars(TurnStep)
====
